---- MODULE Spec2Model ----
(***************************************************************************)
(* Model of src/__main__.py: one run of the bkup_rpimage wrapper.  The     *)
(* script is a straight-line program; every statement group of the script  *)
(* is one action and pc is the position of the interpreter.  The operating *)
(* system (mount table, share contents, exit statuses of the shell         *)
(* commands, the clock) is the environment: its answers are chosen with \E *)
(* where the script asks for them.                                         *)
(*                                                                         *)
(* Strings the script inspects or builds character by character (the       *)
(* interval keyword, the image name) are sequences of one-character        *)
(* strings; all other strings are atoms.                                   *)
(***************************************************************************)
EXTENDS Integers, Sequences, FiniteSets, TLC

VARIABLES
    pc,           \* position of the interpreter in the script
    configFile,   \* what is at args.config: "missing", "malformed" or a file id
    settings,     \* the global settings dict (lines 15-40, updated at 96-103)
    mqttState,    \* "none", "created" (mqtt.Client built), "started" (loop_start)
    mpIsDir,      \* environment: os.path.isdir(mountpoint)
    mounted,      \* environment: os.path.ismount(mountpoint)
    backupDirOk,  \* environment: the share holds the directory subDir
    devDirOk,     \* environment: the share holds subDir/device_directory
    now,          \* datetime.datetime.now() as read at line 202
    image,        \* the image file name built at lines 200-217
    return_code,  \* the script's variable return_code (lines 234, 247)
    message,      \* fatal_error's argument message
    error_code,   \* fatal_error's argument error_code
    unmount,      \* fatal_error's argument unmount (TRUE: a mount point, FALSE: None)
    exit_code,    \* the process exit status, NoExit while the process runs
    trace,        \* everything the run did to the outside, in order
    self,         \* which process the variables above belong to
    other         \* the same variables of a second process on the same machine,
                  \* NoRun when there is none

vars == <<pc, configFile, settings, mqttState, mpIsDir, mounted, backupDirOk,
          devDirOk, now, image, return_code, message, error_code, unmount,
          exit_code, trace, self, other>>

(***************************************************************************)
(* Bounds of the model.                                                    *)
(***************************************************************************)
\* first year of the calendar the clock readings are drawn from
MinYear == 2024
\* number of consecutive years of that calendar
NumYears == 2

(***************************************************************************)
(* Characters and strings.                                                 *)
(***************************************************************************)
UpperCase == <<"A","B","C","D","E","F","G","H","I","J","K","L","M",
               "N","O","P","Q","R","S","T","U","V","W","X","Y","Z">>
LowerCase == <<"a","b","c","d","e","f","g","h","i","j","k","l","m",
               "n","o","p","q","r","s","t","u","v","w","x","y","z">>
Digit == <<"0","1","2","3","4","5","6","7","8","9">>

\* str.lower() on one character
LowerChar(c) ==
    IF \E i \in 1..26 : UpperCase[i] = c
    THEN LowerCase[CHOOSE i \in 1..26 : UpperCase[i] = c]
    ELSE c

\* str.lower()
Lower(s) == [i \in 1..Len(s) |-> LowerChar(s[i])]

RECURSIVE Digits(_)
\* the decimal digits of n >= 0, as format's "d" presentation writes them
Digits(n) ==
    IF n < 10 THEN <<Digit[n + 1]>>
    ELSE Append(Digits(n \div 10), Digit[(n % 10) + 1])

\* '{:0<w>d}'.format(n) for n >= 0: zero-padded on the left to at least w characters
ZeroPad(n, w) ==
    LET d == Digits(n)
    IN  IF Len(d) >= w THEN d ELSE [i \in 1..(w - Len(d)) |-> "0"] \o d

(***************************************************************************)
(* The calendar, as datetime.date computes it (proleptic Gregorian         *)
(* ordinals, Monday = 0).                                                  *)
(***************************************************************************)
IsLeap(y) == y % 4 = 0 /\ (y % 100 /= 0 \/ y % 400 = 0)

DaysInMonth(y, m) ==
    IF m = 2 THEN (IF IsLeap(y) THEN 29 ELSE 28)
    ELSE IF m \in {4, 6, 9, 11} THEN 30 ELSE 31

\* number of days before January 1st of year y
DaysBeforeYear(y) ==
    LET p == y - 1 IN p * 365 + (p \div 4) - (p \div 100) + (p \div 400)

RECURSIVE DaysBeforeMonth(_, _)
\* number of days in year y before the first day of month m
DaysBeforeMonth(y, m) ==
    IF m = 1 THEN 0 ELSE DaysBeforeMonth(y, m - 1) + DaysInMonth(y, m - 1)

\* date.toordinal(): 0001-01-01 is day 1
Ymd2Ord(y, m, d) == DaysBeforeYear(y) + DaysBeforeMonth(y, m) + d

\* ordinal of the Monday that starts ISO week 1 of year y
IsoWeek1Monday(y) ==
    LET firstday     == Ymd2Ord(y, 1, 1)
        firstweekday == (firstday + 6) % 7
        week1monday  == firstday - firstweekday
    IN  IF firstweekday > 3 THEN week1monday + 7 ELSE week1monday

\* faulty variant of IsoWeek: weeks counted in sevens from January 1st
IsoWeek_FromJanuaryFirst(y, m, d) == ((DaysBeforeMonth(y, m) + d - 1) \div 7) + 1

\* datetime.date(y, m, d).isocalendar()[1]
IsoWeek(y, m, d) ==
    LET today == Ymd2Ord(y, m, d)
        week  == (today - IsoWeek1Monday(y)) \div 7
    IN  IF week < 0
        THEN ((today - IsoWeek1Monday(y - 1)) \div 7) + 1
        ELSE IF week >= 52 /\ today >= IsoWeek1Monday(y + 1)
        THEN 1
        ELSE week + 1

\* the valid calendar dates of the years ys
DatesOf(ys) ==
    { dt \in [year : ys, month : 1..12, day : 1..31] :
        dt.day <= DaysInMonth(dt.year, dt.month) }

(***************************************************************************)
(* Construct image name (lines 200-217).  interval is the first character  *)
(* of the lower-cased keyword.                                             *)
(***************************************************************************)
DailySuffix(dt) ==
    <<"_">> \o ZeroPad(dt.year, 4) \o <<"-">> \o ZeroPad(dt.month, 2)
            \o <<"-">> \o ZeroPad(dt.day, 2) \o <<".","i","m","g">>

WeeklySuffix(dt) ==
    <<"_">> \o ZeroPad(dt.year, 4) \o <<"-","w","k">>
            \o ZeroPad(IsoWeek(dt.year, dt.month, dt.day), 2) \o <<".","i","m","g">>

MonthlySuffix(dt) ==
    <<"_">> \o ZeroPad(dt.year, 4) \o <<"-">> \o ZeroPad(dt.month, 2)
            \o <<".","i","m","g">>

YearlySuffix(dt) ==
    <<"_">> \o ZeroPad(dt.year, 4) \o <<".","i","m","g">>

ImageName(base, interval, dt) ==
    IF interval = "d" THEN base \o DailySuffix(dt)
    ELSE IF interval = "w" THEN base \o WeeklySuffix(dt)
    ELSE IF interval = "m" THEN base \o MonthlySuffix(dt)
    ELSE IF interval = "y" THEN base \o YearlySuffix(dt)
    ELSE base

(***************************************************************************)
(* Settings and the configuration file.                                    *)
(***************************************************************************)
None == "None"

\* Default settings
DefaultSettings ==
    [cifs   |-> [user |-> "", password |-> "", share |-> "//10.0.0.2/backup",
                 target |-> "/media/backup", subDir |-> ""],
     backup |-> [command |-> "/opt/bkup_rpimage/bkup_rpimage.sh",
                 image_base_name |-> <<"s","d","i","m","a","g","e">>,
                 full_backup_interval |-> <<"m","o","n","t","h","l","y">>],
     mqtt   |-> [client_id |-> "rpi-backup", host |-> "127.0.0.1", port |-> 1883,
                 keepalive |-> 60, bind_address |-> "", username |-> None,
                 password |-> None, qos |-> 0,
                 pub_topic_namespace |-> "pi/backup", retain |-> TRUE]]

\* a JSON object value, and a JSON value that is no object
Dict(items) == [type |-> "dict", items |-> items]
NotADict    == [type |-> "str", items |-> <<>>]

\* the configuration files the runs are tried with, by name
ConfigFiles ==
    {"empty", "daily", "weekly", "monthly", "yearly", "never", "hourly", "blank",
     "mqtt", "cifs"}

\* json.load(f) of each of them
Overrides(file) ==
    CASE file = "empty"   -> <<>>
      [] file = "daily"   ->
            [backup |-> Dict([full_backup_interval |-> <<"D","a","i","l","y">>])]
      [] file = "weekly"  ->
            [backup |-> Dict([full_backup_interval |-> <<"w","e","e","k","l","y">>])]
      [] file = "monthly" ->
            [backup |-> Dict([full_backup_interval |-> <<"M","O","N","T","H","L","Y">>]),
             cifs   |-> Dict([subDir |-> "pi", user |-> "backup"])]
      [] file = "yearly"  ->
            [backup |-> Dict([full_backup_interval |-> <<"y">>,
                              image_base_name |-> <<"p","i">>])]
      [] file = "never"   ->
            [backup |-> Dict([full_backup_interval |-> <<"n","e","v","e","r">>])]
      [] file = "hourly"  ->
            [backup |-> Dict([full_backup_interval |-> <<"H","o","u","r","l","y">>,
                              image_base_name |-> <<"p","i">>])]
      [] file = "blank"   ->
            [backup |-> Dict([full_backup_interval |-> <<>>])]
      [] file = "mqtt"    ->
            [mqtt   |-> Dict([pub_topic_namespace |-> "home/pi", qos |-> 1]),
             cifs   |-> NotADict,
             backup |-> Dict([full_backup_interval |-> <<"W">>]),
             extra  |-> Dict([full_backup_interval |-> <<"d">>])]
      [] file = "cifs"    ->
            [cifs   |-> Dict([password |-> "secret", target |-> "/mnt/backup"]),
             notes  |-> NotADict]

\* dict.update
Update(d, o) ==
    [k \in DOMAIN d \cup DOMAIN o |-> IF k \in DOMAIN o THEN o[k] ELSE d[k]]

\* faulty variant of UpdateSection: the section is assigned, not updated
UpdateSection_Assigned(s, overrides, section) ==
    IF section \in DOMAIN overrides /\ overrides[section].type = "dict"
    THEN overrides[section].items
    ELSE s[section]

\* one "if '<section>' in overrides and isinstance(overrides['<section>'], dict)"
UpdateSection(s, overrides, section) ==
    IF section \in DOMAIN overrides /\ overrides[section].type = "dict"
    THEN Update(s[section], overrides[section].items)
    ELSE s[section]

\* Update default settings from the settings file (lines 98-103)
MergeSettings(s, overrides) ==
    [backup |-> UpdateSection(s, overrides, "backup"),
     cifs   |-> UpdateSection(s, overrides, "cifs"),
     mqtt   |-> UpdateSection(s, overrides, "mqtt")]

namespace == settings.mqtt.pub_topic_namespace

(***************************************************************************)
(* What the run does to the outside: one record per effect.                *)
(***************************************************************************)
Event(op, topic, text, rc) == [op |-> op, topic |-> topic, text |-> text, rc |-> rc]

\* mqtt_client.publish on the root topic (lines 139-143)
PublishRoot(payload) == Event("publish", <<namespace>>, payload, 0)

\* mqtt_publish (lines 47-54): the topic is namespace + '/' + topic
MqttPublish(topic, payload) == Event("publish", <<namespace, topic>>, payload, 0)

\* subprocess.call / check_output of a shell command and the status it returned
Call(cmd, rc) == Event("call", <<>>, cmd, rc)

\* exit statuses the environment may give: 0, a failure status, or the negative
\* signal number subprocess reports when the shell was killed
MountCodes  == {0, 32}
MacCodes    == {0, 1}
BackupCodes == {0 - 9, 0, 1, 3}
UmountCodes == {0 - 9, 0, 32}

NoExit == 0 - 1
NoCode == 0 - 1
NoDate == [year |-> 0, month |-> 0, day |-> 0]
\* the value of other when the process runs alone
NoRun  == [pc |-> "none"]

\* every date of the bounded calendar
Calendar == DatesOf(MinYear .. (MinYear + NumYears - 1))

\* the clock readings of the full runs: four dates of each year, among them one
\* in the middle of a year and one in the week that spans the new year
Clock == { dt \in Calendar : dt.month \in {3, 12} /\ dt.day \in {15, 30} }

\* the error_code arguments of the calls of fatal_error
ErrMountPoint == 1
ErrMount      == 2
ErrBackupDir  == 3
ErrCreate     == 4
ErrBackup     == 5
ErrUnmount    == 6

\* faulty variant of DefaultUnmount: fatal_error unmounts unless told otherwise
DefaultUnmount_Always == TRUE
\* the default of fatal_error's parameter unmount (None: no mount point given)
DefaultUnmount == FALSE
\* faulty variant of PassMountpoint: the argument unmount is left out
PassMountpoint_Omitted == FALSE
\* faulty variant of PassMountpoint: the mount point is passed only by a run
\* that issued the mount command itself
PassMountpoint_OnlyOwnMount ==
    \E i \in DOMAIN trace : trace[i].op = "call" /\ trace[i].text = "mount"
\* unmount = mountpoint, as lines 180, 197 and 240 pass it
PassMountpoint == TRUE

(***************************************************************************)
(* The state after the interpreter has run lines 1-93: the default         *)
(* settings, no MQTT client, nothing done yet.  The environment is any     *)
(* consistent one: only a directory can be a mount point, and the device   *)
(* directory lives inside the backup directory.                            *)
(***************************************************************************)
Init ==
    /\ pc = "load_config"
    /\ configFile \in ConfigFiles \cup {"missing", "malformed"}
    /\ settings = DefaultSettings
    /\ mqttState = "none"
    /\ mpIsDir \in BOOLEAN
    /\ mounted \in BOOLEAN
    /\ mounted => mpIsDir
    /\ backupDirOk \in BOOLEAN
    /\ devDirOk \in BOOLEAN
    /\ devDirOk => backupDirOk
    /\ now = NoDate
    /\ image = <<>>
    /\ return_code = NoCode
    /\ message = ""
    /\ error_code = NoCode
    /\ unmount = FALSE
    /\ exit_code = NoExit
    /\ trace = <<>>
    /\ self = 1
    /\ other = NoRun

\* an exception nobody catches: the interpreter prints the traceback and the
\* process ends with status 1; nothing is published and nothing is unmounted
Uncaught(exception, effects) ==
    /\ trace' = trace \o effects \o <<Event("traceback", <<>>, exception, 1)>>
    /\ exit_code' = 1
    /\ pc' = "exit"

\* the call fatal_error(message, error_code, unmount): control enters line 58
EnterFatalError(msg, code, umnt, effects) ==
    /\ trace' = trace \o effects
    /\ message' = msg
    /\ error_code' = code
    /\ unmount' = umnt
    /\ pc' = "fatal_publish_message"

\* faulty variant of LoadConfig: a file that cannot be read or parsed is
\* passed over and the run goes on with the default settings
LoadConfig_KeepsGoing ==
    /\ pc = "load_config"
    /\ settings' = IF configFile \in ConfigFiles
                   THEN MergeSettings(settings, Overrides(configFile))
                   ELSE settings
    /\ pc' = "mqtt_init"
    /\ UNCHANGED <<trace, exit_code>>
    /\ UNCHANGED <<self, other, configFile, mqttState, mpIsDir, mounted, backupDirOk,
                   devDirOk, now, image, return_code, message, error_code, unmount>>

\* Update default settings from the settings file (lines 95-103)
LoadConfig ==
    /\ pc = "load_config"
    /\ \/ /\ configFile = "missing"
          /\ Uncaught("FileNotFoundError", <<>>)
          /\ UNCHANGED settings
       \/ /\ configFile = "malformed"
          /\ Uncaught("JSONDecodeError", <<>>)
          /\ UNCHANGED settings
       \/ /\ configFile \in ConfigFiles
          /\ settings' = MergeSettings(settings, Overrides(configFile))
          /\ pc' = "mqtt_init"
          /\ UNCHANGED <<trace, exit_code>>
    /\ UNCHANGED <<self, other, configFile, mqttState, mpIsDir, mounted, backupDirOk, devDirOk,
                   now, image, return_code, message, error_code, unmount>>

\* Set up paho-mqtt: Client, will_set, connect_async, loop_start (lines 110-135)
MqttInit ==
    /\ pc = "mqtt_init"
    /\ mqttState' = "started"
    /\ trace' = trace \o <<Event("will_set", <<namespace>>, "offline", 0),
                           Event("connect_async", <<>>, settings.mqtt.host, 0)>>
    /\ pc' = "publish_busy"
    /\ UNCHANGED <<self, other, configFile, settings, mpIsDir, mounted, backupDirOk, devDirOk,
                   now, image, return_code, message, error_code, unmount, exit_code>>

\* First message telling that the backup is in progress (lines 137-143)
PublishBusy ==
    /\ pc = "publish_busy"
    /\ trace' = Append(trace, PublishRoot("busy"))
    /\ pc' = "check_mountpoint"
    /\ UNCHANGED <<self, other, configFile, settings, mqttState, mpIsDir, mounted, backupDirOk,
                   devDirOk, now, image, return_code, message, error_code, unmount,
                   exit_code>>

\* Check if mount point exists (lines 158-163)
CheckMountPoint ==
    /\ pc = "check_mountpoint"
    /\ \/ /\ ~mpIsDir
          /\ EnterFatalError("Invalid mount point", ErrMountPoint, DefaultUnmount, <<>>)
       \/ /\ mpIsDir
          /\ pc' = "mount"
          /\ UNCHANGED <<trace, message, error_code, unmount>>
    /\ UNCHANGED <<self, other, configFile, settings, mqttState, mpIsDir, mounted, backupDirOk,
                   devDirOk, now, image, return_code, exit_code>>

\* faulty variant of Mount: the test "if not os.path.ismount(mountpoint)" is
\* missing, the mount command is issued in any case
Mount_Unconditional ==
    /\ pc = "mount"
    /\ \E rc \in MountCodes :
          /\ trace' = Append(trace, Call("mount", rc))
          /\ mounted' = (mounted \/ rc = 0)
    /\ pc' = "check_mount"
    /\ UNCHANGED <<self, other, configFile, settings, mqttState, mpIsDir, backupDirOk,
                   devDirOk, now, image, return_code, message, error_code, unmount,
                   exit_code>>

\* Mount the cifs share (lines 165-168); the status of the command is dropped
Mount ==
    /\ pc = "mount"
    /\ \/ /\ mounted
          /\ UNCHANGED <<trace, mounted>>
       \/ /\ ~mounted
          /\ \E rc \in MountCodes :
                /\ trace' = Append(trace, Call("mount", rc))
                /\ mounted' = (rc = 0)
    /\ pc' = "check_mount"
    /\ UNCHANGED <<self, other, configFile, settings, mqttState, mpIsDir, backupDirOk, devDirOk,
                   now, image, return_code, message, error_code, unmount, exit_code>>

\* variant of CheckMount with a retry: when the share is not mounted the run
\* goes back to the mount command instead of giving up
CheckMount_Retries ==
    /\ pc = "check_mount"
    /\ \/ /\ ~mounted
          /\ pc' = "mount"
          /\ UNCHANGED <<trace, message, error_code, unmount>>
       \/ /\ mounted
          /\ ~backupDirOk
          /\ EnterFatalError("Invalid backup directory", ErrBackupDir, PassMountpoint, <<>>)
       \/ /\ mounted
          /\ backupDirOk
          /\ pc' = "device_directory"
          /\ UNCHANGED <<trace, message, error_code, unmount>>
    /\ UNCHANGED <<self, other, configFile, settings, mqttState, mpIsDir, mounted,
                   backupDirOk, devDirOk, now, image, return_code, exit_code>>

\* Check if the share is successfully mounted and the backup directory is
\* present (lines 170-180)
CheckMount ==
    /\ pc = "check_mount"
    /\ \/ /\ ~mounted
          /\ EnterFatalError("Failed to mount backup volume", ErrMount, DefaultUnmount, <<>>)
       \/ /\ mounted
          /\ ~backupDirOk
          /\ EnterFatalError("Invalid backup directory", ErrBackupDir, PassMountpoint, <<>>)
       \/ /\ mounted
          /\ backupDirOk
          /\ pc' = "device_directory"
          /\ UNCHANGED <<trace, message, error_code, unmount>>
    /\ UNCHANGED <<self, other, configFile, settings, mqttState, mpIsDir, mounted, backupDirOk,
                   devDirOk, now, image, return_code, exit_code>>

\* Device directory on backup volume (lines 182-188): check_output raises
\* CalledProcessError when maccmd ends with a status other than 0
DeviceDirectory ==
    /\ pc = "device_directory"
    /\ \E rc \in MacCodes :
          \/ /\ rc /= 0
             /\ Uncaught("CalledProcessError", <<Call("maccmd", rc)>>)
          \/ /\ rc = 0
             /\ trace' = Append(trace, Call("maccmd", rc))
             /\ pc' = "make_directory"
             /\ UNCHANGED exit_code
    /\ UNCHANGED <<self, other, configFile, settings, mqttState, mpIsDir, mounted, backupDirOk,
                   devDirOk, now, image, return_code, message, error_code, unmount>>

\* lines 190-197: os.mkdir either makes the directory, or raises OSError, or
\* returns and the directory is not there at the check of line 193
MakeDirectory ==
    /\ pc = "make_directory"
    /\ \/ /\ devDirOk
          /\ pc' = "image_name"
          /\ UNCHANGED <<trace, devDirOk, message, error_code, unmount, exit_code>>
       \/ /\ ~devDirOk
          /\ devDirOk' = TRUE
          /\ trace' = Append(trace, Event("mkdir", <<>>, "created", 0))
          /\ pc' = "image_name"
          /\ UNCHANGED <<message, error_code, unmount, exit_code>>
       \/ /\ ~devDirOk
          /\ Uncaught("OSError", <<Event("mkdir", <<>>, "raised", 1)>>)
          /\ UNCHANGED <<devDirOk, message, error_code, unmount>>
       \/ /\ ~devDirOk
          /\ EnterFatalError("Failed to create", ErrCreate, PassMountpoint,
                             <<Event("mkdir", <<>>, "vanished", 0)>>)
          /\ UNCHANGED <<devDirOk, exit_code>>
    /\ UNCHANGED <<self, other, configFile, settings, mqttState, mpIsDir, mounted, backupDirOk,
                   now, image, return_code>>

\* Construct image name (lines 199-217); .lower()[0] raises IndexError on ""
ConstructImageName(dt) ==
    /\ pc = "image_name"
    /\ LET keyword == Lower(settings.backup.full_backup_interval)
       IN  \/ /\ Len(keyword) = 0
              /\ Uncaught("IndexError", <<>>)
              /\ UNCHANGED <<now, image>>
           \/ /\ Len(keyword) > 0
              /\ now' = dt
              /\ image' = ImageName(settings.backup.image_base_name, keyword[1], dt)
              /\ pc' = "backup"
              /\ UNCHANGED <<trace, exit_code>>
    /\ UNCHANGED <<self, other, configFile, settings, mqttState, mpIsDir, mounted, backupDirOk,
                   devDirOk, return_code, message, error_code, unmount>>

\* faulty variant of Failed: ">=" written for ">"
Failed_OrZero(rc) == rc >= 0

\* "if return_code > 0" (lines 236 and 249)
Failed(rc) == rc > 0

\* INVOKE BACKUP: the command line is built and call starts the command
\* (lines 230-234); the process waits until the command ends
StartBackup ==
    /\ pc = "backup"
    /\ pc' = "backup_running"
    /\ UNCHANGED <<self, other, configFile, settings, mqttState, mpIsDir, mounted,
                   backupDirOk, devDirOk, now, image, return_code, message,
                   error_code, unmount, exit_code, trace>>

\* INVOKE BACKUP: call returns the status of the command (lines 234-240)
InvokeBackup ==
    /\ pc = "backup_running"
    /\ \E rc \in BackupCodes :
          /\ return_code' = rc
          /\ \/ /\ Failed(rc)
                /\ EnterFatalError("Backup stopped with exit code", ErrBackup, PassMountpoint,
                                   <<Call("backup", rc)>>)
             \/ /\ ~Failed(rc)
                /\ trace' = Append(trace, Call("backup", rc))
                /\ pc' = "finalise"
                /\ UNCHANGED <<message, error_code, unmount>>
    /\ UNCHANGED <<self, other, configFile, settings, mqttState, mpIsDir, mounted, backupDirOk,
                   devDirOk, now, image, exit_code>>

\* what 'umount <mountpoint>' does to the mount table, by its status
AfterUmount(rc) == IF rc = 0 THEN FALSE ELSE mounted

\* variant of Finalise that coordinates: the umount waits while the backup
\* command of another process is running
Finalise_WaitsForOther ==
    /\ pc = "finalise"
    /\ other.pc /= "backup_running"
    /\ \E rc \in UmountCodes :
          /\ return_code' = rc
          /\ mounted' = AfterUmount(rc)
          /\ \/ /\ Failed(rc)
                /\ EnterFatalError("Failed to unmount the backup volume", ErrUnmount,
                                   DefaultUnmount, <<Call("umount", rc)>>)
             \/ /\ ~Failed(rc)
                /\ trace' = Append(trace, Call("umount", rc))
                /\ pc' = "report_success"
                /\ UNCHANGED <<message, error_code, unmount>>
    /\ UNCHANGED <<self, other, configFile, settings, mqttState, mpIsDir, backupDirOk,
                   devDirOk, now, image, exit_code>>

\* FINALISE: Unmount the backup volume (lines 246-252)
Finalise ==
    /\ pc = "finalise"
    /\ \E rc \in UmountCodes :
          /\ return_code' = rc
          /\ mounted' = AfterUmount(rc)
          /\ \/ /\ Failed(rc)
                /\ EnterFatalError("Failed to unmount the backup volume", ErrUnmount,
                                   DefaultUnmount,
                                   <<Call("umount", rc)>>)
             \/ /\ ~Failed(rc)
                /\ trace' = Append(trace, Call("umount", rc))
                /\ pc' = "report_success"
                /\ UNCHANGED <<message, error_code, unmount>>
    /\ UNCHANGED <<self, other, configFile, settings, mqttState, mpIsDir, backupDirOk, devDirOk,
                   now, image, exit_code>>

\* faulty variant of ReportSuccess: the publish is left out
ReportSuccess_Skipped ==
    /\ pc = "report_success"
    /\ pc' = "sys_exit"
    /\ UNCHANGED <<self, other, configFile, settings, mqttState, mpIsDir, mounted,
                   backupDirOk, devDirOk, now, image, return_code, message,
                   error_code, unmount, exit_code, trace>>

\* Report successful backup (lines 254-258)
ReportSuccess ==
    /\ pc = "report_success"
    /\ trace' = Append(trace, MqttPublish("last_success", "timestamp"))
    /\ pc' = "sys_exit"
    /\ UNCHANGED <<self, other, configFile, settings, mqttState, mpIsDir, mounted, backupDirOk,
                   devDirOk, now, image, return_code, message, error_code, unmount,
                   exit_code>>

\* sys.exit(0) (line 260)
ExitSuccess ==
    /\ pc = "sys_exit"
    /\ exit_code' = 0
    /\ pc' = "exit"
    /\ UNCHANGED <<self, other, configFile, settings, mqttState, mpIsDir, mounted, backupDirOk,
                   devDirOk, now, image, return_code, message, error_code, unmount,
                   trace>>

(***************************************************************************)
(* fatal_error (lines 56-71), statement by statement.                      *)
(***************************************************************************)
FatalPublishMessage ==
    /\ pc = "fatal_publish_message"
    /\ trace' = Append(trace, MqttPublish("last_error/message", message))
    /\ pc' = "fatal_publish_timestamp"
    /\ UNCHANGED <<self, other, configFile, settings, mqttState, mpIsDir, mounted, backupDirOk,
                   devDirOk, now, image, return_code, message, error_code, unmount,
                   exit_code>>

FatalPublishTimestamp ==
    /\ pc = "fatal_publish_timestamp"
    /\ trace' = Append(trace, MqttPublish("last_error/timestamp", "timestamp"))
    /\ pc' = "fatal_log"
    /\ UNCHANGED <<self, other, configFile, settings, mqttState, mpIsDir, mounted, backupDirOk,
                   devDirOk, now, image, return_code, message, error_code, unmount,
                   exit_code>>

\* log.fatal('{} [ERR{}]'.format(message, str(error_code)))
FatalLog ==
    /\ pc = "fatal_log"
    /\ trace' = Append(trace, Event("log.fatal", <<>>, message, error_code))
    /\ pc' = "fatal_unmount"
    /\ UNCHANGED <<self, other, configFile, settings, mqttState, mpIsDir, mounted, backupDirOk,
                   devDirOk, now, image, return_code, message, error_code, unmount,
                   exit_code>>

\* Try to unmount cleanly (lines 67-69): the status of umount is dropped
FatalUnmount ==
    /\ pc = "fatal_unmount"
    /\ \/ /\ unmount
          /\ \E rc \in UmountCodes :
                /\ trace' = Append(trace, Call("umount", rc))
                /\ mounted' = AfterUmount(rc)
       \/ /\ ~unmount
          /\ UNCHANGED <<trace, mounted>>
    /\ pc' = "fatal_exit"
    /\ UNCHANGED <<self, other, configFile, settings, mqttState, mpIsDir, backupDirOk, devDirOk,
                   now, image, return_code, message, error_code, unmount, exit_code>>

\* faulty variant of FatalExitStatus: a share left mounted by the umount of the
\* fatal path is reported as an unmount failure
FatalExitStatus_UmountAware == IF unmount /\ mounted THEN ErrUnmount ELSE error_code

\* the status sys.exit is given at line 71
FatalExitStatus == error_code

\* Stop script (line 71)
FatalExit ==
    /\ pc = "fatal_exit"
    /\ exit_code' = FatalExitStatus
    /\ pc' = "exit"
    /\ UNCHANGED <<self, other, configFile, settings, mqttState, mpIsDir, mounted, backupDirOk,
                   devDirOk, now, image, return_code, message, error_code, unmount,
                   trace>>

Next ==
    \/ LoadConfig
    \/ MqttInit
    \/ PublishBusy
    \/ CheckMountPoint
    \/ Mount
    \/ CheckMount
    \/ DeviceDirectory
    \/ MakeDirectory
    \/ \E dt \in Clock : ConstructImageName(dt)
    \/ StartBackup
    \/ InvokeBackup
    \/ Finalise
    \/ ReportSuccess
    \/ ExitSuccess
    \/ FatalPublishMessage
    \/ FatalPublishTimestamp
    \/ FatalLog
    \/ FatalUnmount
    \/ FatalExit

Spec == Init /\ [][Next]_vars

\* the interpreter never stops between two statements, and every external
\* command returns: a step that can be taken is taken
SpecLive == Init /\ [][Next]_vars /\ WF_vars(Next)

(***************************************************************************)
(* The image naming alone, over the whole calendar: the runs that found    *)
(* the share mounted and the device directory present stand at line 199,   *)
(* and the clock may read any date.                                        *)
(***************************************************************************)
InitNaming ==
    /\ pc = "image_name"
    /\ configFile \in ConfigFiles
    /\ settings = MergeSettings(DefaultSettings, Overrides(configFile))
    /\ mqttState = "started"
    /\ mpIsDir = TRUE
    /\ mounted = TRUE
    /\ backupDirOk = TRUE
    /\ devDirOk = TRUE
    /\ now = NoDate
    /\ image = <<>>
    /\ return_code = NoCode
    /\ message = ""
    /\ error_code = NoCode
    /\ unmount = FALSE
    /\ exit_code = NoExit
    /\ trace = <<Event("will_set", <<namespace>>, "offline", 0),
                 Event("connect_async", <<>>, settings.mqtt.host, 0),
                 PublishRoot("busy"),
                 Call("maccmd", 0)>>
    /\ self = 1
    /\ other = NoRun

NextNaming == \E dt \in Calendar : ConstructImageName(dt)

SpecNaming == InitNaming /\ [][NextNaming]_vars

(***************************************************************************)
(* Two processes of the script on one machine (two cron jobs overlapping): *)
(* each has its own interpreter state, both share the mount table and the  *)
(* share.  The variables pc .. trace hold the state of the process that is *)
(* running, other holds the state of the one that is waiting, and the      *)
(* scheduler may switch between them after any step.  The script takes no  *)
(* lock and asks for none.                                                 *)
(***************************************************************************)
Locals ==
    [pc |-> pc, configFile |-> configFile, settings |-> settings,
     mqttState |-> mqttState, now |-> now, image |-> image,
     return_code |-> return_code, message |-> message, error_code |-> error_code,
     unmount |-> unmount, exit_code |-> exit_code, trace |-> trace]

\* the scheduler lets the other process run, unless it has ended
Switch ==
    /\ other.pc \notin {"none", "exit"}
    /\ other' = Locals
    /\ self' = 3 - self
    /\ pc' = other.pc
    /\ configFile' = other.configFile
    /\ settings' = other.settings
    /\ mqttState' = other.mqttState
    /\ now' = other.now
    /\ image' = other.image
    /\ return_code' = other.return_code
    /\ message' = other.message
    /\ error_code' = other.error_code
    /\ unmount' = other.unmount
    /\ exit_code' = other.exit_code
    /\ trace' = other.trace
    /\ UNCHANGED <<mpIsDir, mounted, backupDirOk, devDirOk>>

\* both processes are started on the same day
RaceClock == { dt \in Clock : dt.year = MinYear /\ dt.month = 3 /\ dt.day = 15 }

\* both processes start with the default configuration file contents and an
\* existing mount point and backup directory
InitRace ==
    /\ pc = "load_config"
    /\ configFile = "empty"
    /\ settings = DefaultSettings
    /\ mqttState = "none"
    /\ mpIsDir = TRUE
    /\ mounted \in BOOLEAN
    /\ backupDirOk = TRUE
    /\ devDirOk \in BOOLEAN
    /\ now = NoDate
    /\ image = <<>>
    /\ return_code = NoCode
    /\ message = ""
    /\ error_code = NoCode
    /\ unmount = FALSE
    /\ exit_code = NoExit
    /\ trace = <<>>
    /\ self = 1
    /\ other = [pc |-> "load_config", configFile |-> "empty",
                settings |-> DefaultSettings, mqttState |-> "none", now |-> NoDate,
                image |-> <<>>, return_code |-> NoCode, message |-> "",
                error_code |-> NoCode, unmount |-> FALSE, exit_code |-> NoExit,
                trace |-> <<>>]

NextRace ==
    \/ LoadConfig
    \/ MqttInit
    \/ PublishBusy
    \/ CheckMountPoint
    \/ Mount
    \/ CheckMount
    \/ DeviceDirectory
    \/ MakeDirectory
    \/ \E dt \in RaceClock : ConstructImageName(dt)
    \/ StartBackup
    \/ InvokeBackup
    \/ Finalise
    \/ ReportSuccess
    \/ ExitSuccess
    \/ FatalPublishMessage
    \/ FatalPublishTimestamp
    \/ FatalLog
    \/ FatalUnmount
    \/ FatalExit
    \/ Switch

SpecRace == InitRace /\ [][NextRace]_vars

(***************************************************************************)
(* Vocabulary of the properties: what a run has done so far, read from     *)
(* trace.                                                                  *)
(***************************************************************************)
Exited == pc = "exit"

IsCall(e, cmd) == e.op = "call" /\ e.text = cmd
IsPublish(e, topic) == e.op = "publish" /\ e.topic = <<namespace, topic>>
IsBusy(e) == e.op = "publish" /\ e.topic = <<namespace>> /\ e.text = "busy"

\* the positions of trace at which cmd was issued
CallsOf(cmd) == { i \in DOMAIN trace : IsCall(trace[i], cmd) }
Issued(cmd) == CallsOf(cmd) /= {}
\* cmd was issued and returned rc
Returned(cmd, rc) == \E i \in CallsOf(cmd) : trace[i].rc = rc
\* cmd was issued and returned something else than 0
ReturnedNonZero(cmd) == \E i \in CallsOf(cmd) : trace[i].rc /= 0

PublishesOf(topic) == { i \in DOMAIN trace : IsPublish(trace[i], topic) }
Published(topic) == PublishesOf(topic) /= {}

\* the positions of the log.fatal line and of the traceback of an uncaught exception
FatalLogs == { i \in DOMAIN trace : trace[i].op = "log.fatal" }
Tracebacks == { i \in DOMAIN trace : trace[i].op = "traceback" }

\* os.mkdir was called and did not leave the directory behind
MkdirFailed ==
    \E i \in DOMAIN trace :
        trace[i].op = "mkdir" /\ trace[i].text \in {"raised", "vanished"}

\* the umount of line 247 (the one issued before any fatal log line) returned
\* something else than 0
FinalUmountFailed ==
    \E i \in CallsOf("umount") :
        trace[i].rc /= 0 /\ \A j \in FatalLogs : i < j

\* the run got past configuration loading
ConfigLoaded == pc /= "load_config" /\ configFile \in ConfigFiles

\* a stage outside C1's list failed: the MAC lookup, or taking the first letter
\* of an empty interval
OtherStageFailed ==
    \E i \in Tracebacks : trace[i].text \in {"CalledProcessError", "IndexError"}

\* C1: the exit code the claim assigns to a finished run
ClaimedExitCode ==
    IF ~mpIsDir THEN 1
    ELSE IF ReturnedNonZero("mount") THEN 2
    ELSE IF ~backupDirOk THEN 3
    ELSE IF MkdirFailed THEN 4
    ELSE IF ReturnedNonZero("backup") THEN 5
    ELSE IF FinalUmountFailed THEN 6
    ELSE 0

\* C1 (as claimed): in every run that got past configuration loading and in
\* which no stage outside the list failed, the exit code is that of the first
\* failing stage (1 mount point, 2 mount, 3 backup directory, 4 device
\* directory, 5 backup, 6 final unmount) and 0 when none failed.
C1_ExitCodeNamesFirstFailure ==
    (Exited /\ ConfigLoaded /\ ~OtherStageFailed) => exit_code = ClaimedExitCode

\* C2 (as claimed): when the backup command returned a code other than 0,
\* positive or negative, the run ends with exit code 5, has issued an umount
\* and has not published last_success.
C2_NonZeroBackupIsFatal ==
    (Exited /\ ReturnedNonZero("backup")) =>
        /\ exit_code = 5
        /\ Issued("umount")
        /\ ~Published("last_success")

\* C3 (as claimed): when the backup command returned 3, the run ends with exit
\* code 5 and the share is not mounted at the mount point when it ends.
C3_Original ==
    (Exited /\ Returned("backup", 3)) => (exit_code = 5 /\ ~mounted)

\* C3 (amended): when the backup command returned 3, the run ends with exit
\* code 5 having issued umount exactly once, as the last thing it did; the
\* share is unmounted at the end exactly if that umount returned 0.
C3_Backup3Exit5UmountAttempted ==
    (Exited /\ Returned("backup", 3)) =>
        /\ exit_code = 5
        /\ Len(trace) > 0
        /\ CallsOf("umount") = {Len(trace)}
        /\ mounted <=> (trace[Len(trace)].rc /= 0)

\* C3 witness: a run whose backup command returned 3 has ended, and its
\* umount succeeded
C3_Witness ==
    Exited /\ Returned("backup", 3) /\ Returned("umount", 0) /\ ~mounted

\* C4: when the mount point is no directory, no command (mount, MAC lookup,
\* backup, umount) is ever issued, and the run ends with exit code 1.
C4_BadMountPointExit1NoCommands ==
    ~mpIsDir =>
        /\ ~Issued("mount") /\ ~Issued("maccmd")
        /\ ~Issued("backup") /\ ~Issued("umount")
        /\ Exited => exit_code = 1

\* C4 witness: a run that loaded its configuration, found the mount point
\* missing and has ended through fatal_error
C4_Witness ==
    Exited /\ ConfigLoaded /\ ~mpIsDir /\ FatalLogs /= {}

\* the commands that touch the share
ShareCalls == CallsOf("mount") \cup CallsOf("backup") \cup CallsOf("umount")

\* C5: at every moment, "busy" was published on the root topic before any
\* mount, backup or umount command was issued; and a run whose backup and umount
\* both returned 0 ends with exit code 0, last_success being the last thing it
\* did, after the backup and the umount.
C5_BusyFirstSuccessLast ==
    /\ \A i \in ShareCalls : \E b \in 1..(i - 1) : IsBusy(trace[b])
    /\ (Exited /\ Returned("backup", 0) /\ Returned("umount", 0)) =>
          /\ exit_code = 0
          /\ PublishesOf("last_success") = {Len(trace)}
          /\ \A i \in ShareCalls : i < Len(trace)

\* C5 witness: a run that had to mount the share, whose every stage succeeded,
\* has ended
C5_Witness ==
    /\ Exited /\ exit_code = 0
    /\ Returned("mount", 0) /\ Returned("backup", 0) /\ Returned("umount", 0)
    /\ Published("last_success")

\* C6 (as claimed): when the final umount did not return 0, the run ends with
\* exit code 6 having issued umount once only, having published
\* last_error/message and last_error/timestamp and not last_success.
C6_FinalUmountFailureIsFatal ==
    (Exited /\ FinalUmountFailed) =>
        /\ exit_code = 6
        /\ Cardinality(CallsOf("umount")) = 1
        /\ Published("last_error/message")
        /\ Published("last_error/timestamp")
        /\ ~Published("last_success")

\* C7: a run that ended through fatal_error did, as its last things and in this
\* order: publish last_error/message (once), publish last_error/timestamp
\* (once), write the fatal log line with the error code, issue umount if and
\* only if a mount point was passed; its exit code is the error code passed,
\* whatever that umount returned.
C7_FatalPathOrder ==
    (Exited /\ error_code /= NoCode) =>
        LET n == Len(trace)
            k == IF unmount THEN 1 ELSE 0
        IN  /\ n >= k + 3
            /\ PublishesOf("last_error/message") = {n - k - 2}
            /\ trace[n - k - 2].text = message
            /\ PublishesOf("last_error/timestamp") = {n - k - 1}
            /\ FatalLogs = {n - k}
            /\ trace[n - k].rc = error_code
            /\ unmount => IsCall(trace[n], "umount")
            /\ \A i \in CallsOf("umount") : i > n - k => unmount
            /\ exit_code = error_code
            /\ exit_code \in 1..6

\* C7 witness: a run ended through fatal_error with a mount point passed, and
\* the umount of the fatal path failed
C7_Witness ==
    /\ Exited /\ error_code = 5 /\ unmount /\ exit_code = 5
    /\ IsCall(trace[Len(trace)], "umount") /\ trace[Len(trace)].rc /= 0

\* the interval keyword has a first letter, and it is none of d, w, m, y in
\* either case
UnrecognizedInterval ==
    LET kw == settings.backup.full_backup_interval
    IN  /\ Len(kw) > 0
        /\ kw[1] \notin {"d", "D", "w", "W", "m", "M", "y", "Y"}

\* C8 (as claimed): with an unrecognized interval keyword the run reaches the
\* backup stage with the image name base.img.
C8_UnrecognizedGivesBaseImg ==
    (pc = "backup" /\ UnrecognizedInterval) =>
        image = settings.backup.image_base_name \o <<".", "i", "m", "g">>

\* C10 (as claimed): when the device directory was absent and creating it
\* failed, the run ends with exit code 4, having published last_error/message
\* and last_error/timestamp and having issued umount.
C10_MkdirFailureIsFatal4 ==
    (Exited /\ MkdirFailed) =>
        /\ exit_code = 4
        /\ Published("last_error/message")
        /\ Published("last_error/timestamp")
        /\ Issued("umount")

(***************************************************************************)
(* C9: the documented patterns, written out digit by digit, and the ISO    *)
(* week by its definition: the week of a date is the week of its Thursday, *)
(* and week 1 of a year is the one holding the year's first Thursday.      *)
(* Weekdays are counted from Monday 2001-01-01.                            *)
(***************************************************************************)
TwoDigits(n) == <<Digit[(n \div 10) + 1], Digit[(n % 10) + 1]>>

FourDigits(n) ==
    <<Digit[(n \div 1000) + 1], Digit[((n \div 100) % 10) + 1],
      Digit[((n \div 10) % 10) + 1], Digit[(n % 10) + 1]>>

YearLength(y) == IF IsLeap(y) THEN 366 ELSE 365

RECURSIVE DaysSince2001(_)
DaysSince2001(y) == IF y <= 2001 THEN 0 ELSE DaysSince2001(y - 1) + YearLength(y - 1)

DayOfYear(dt) == DaysBeforeMonth(dt.year, dt.month) + dt.day

\* Monday = 0 ... Sunday = 6
WeekdayOf(dt) == (DaysSince2001(dt.year) + DayOfYear(dt) - 1) % 7

WeekOfThursday(dt) ==
    LET t == DayOfYear(dt) + 3 - WeekdayOf(dt)
        u == IF t < 1 THEN t + YearLength(dt.year - 1)
             ELSE IF t > YearLength(dt.year) THEN t - YearLength(dt.year)
             ELSE t
    IN  ((u - 1) \div 7) + 1

DocumentedName(base, letter, dt) ==
    CASE letter \in {"d", "D"} ->
            base \o <<"_">> \o FourDigits(dt.year) \o <<"-">> \o TwoDigits(dt.month)
                 \o <<"-">> \o TwoDigits(dt.day) \o <<".", "i", "m", "g">>
      [] letter \in {"w", "W"} ->
            base \o <<"_">> \o FourDigits(dt.year) \o <<"-", "w", "k">>
                 \o TwoDigits(WeekOfThursday(dt)) \o <<".", "i", "m", "g">>
      [] letter \in {"m", "M"} ->
            base \o <<"_">> \o FourDigits(dt.year) \o <<"-">> \o TwoDigits(dt.month)
                 \o <<".", "i", "m", "g">>
      [] letter \in {"y", "Y"} ->
            base \o <<"_">> \o FourDigits(dt.year) \o <<".", "i", "m", "g">>

Sdimage_2024_wk11 ==
    <<"s","d","i","m","a","g","e","_","2","0","2","4","-","w","k","1","1",
      ".","i","m","g">>

\* C9: once the image name is built from an interval whose first letter is d,
\* w, m or y (either case), it is base_YYYY-MM-DD.img, base_YYYY-wkWW.img,
\* base_YYYY-MM.img or base_YYYY.img for the date read, zero-padded; and
\* "sdimage", "weekly", 2024-03-15 give sdimage_2024-wk11.img.
C9_DocumentedImageName ==
    LET kw   == settings.backup.full_backup_interval
        base == settings.backup.image_base_name
    IN  (pc = "backup" /\ Len(kw) > 0 /\ ~UnrecognizedInterval) =>
            /\ image = DocumentedName(base, kw[1], now)
            /\ (configFile = "weekly" /\ now = [year |-> 2024, month |-> 3, day |-> 15])
                  => image = Sdimage_2024_wk11

\* C9 witness: the weekly name was built for "sdimage" on 2024-03-15
C9_Witness ==
    /\ pc = "backup"
    /\ settings.backup.full_backup_interval = <<"w","e","e","k","l","y">>
    /\ settings.backup.image_base_name = <<"s","d","i","m","a","g","e">>
    /\ now = [year |-> 2024, month |-> 3, day |-> 15]
    /\ image = Sdimage_2024_wk11

\* C17: two processes are not coordinated: whenever the backup command of one
\* is running and the other stands at its final umount (line 247) or at the
\* umount of fatal_error (line 69), that umount can be issued at once and can
\* take the share away.
C17_UmountNotCoordinated ==
    other.pc = "backup_running" =>
        /\ pc = "finalise" => ENABLED (Finalise /\ ~mounted')
        /\ (pc = "fatal_unmount" /\ unmount) => ENABLED (FatalUnmount /\ ~mounted')

\* C17 witness: the share is mounted, the backup command of one process is
\* running and the other process stands at its final umount
C17_Witness ==
    /\ other.pc = "backup_running"
    /\ pc = "finalise"
    /\ mounted

\* some stage after the MQTT startup failed: the mount point check, the mount,
\* the backup directory check, the MAC lookup, the creation of the device
\* directory, the image naming, the backup command or the final umount
SomeStageFailed ==
    \/ ~mpIsDir
    \/ ReturnedNonZero("mount")
    \/ ~backupDirOk
    \/ ReturnedNonZero("maccmd")
    \/ MkdirFailed
    \/ \E i \in Tracebacks : trace[i].text = "IndexError"
    \/ ReturnedNonZero("backup")
    \/ FinalUmountFailed

\* C11 (as claimed): a run in which a stage after the MQTT startup failed ends
\* through fatal_error and by no other route: last_error/message and
\* last_error/timestamp are published, the fatal line is logged, no exception
\* escapes, and the exit code is one of 1..6.
C11_EveryFailureTakesFatalPath ==
    (Exited /\ mqttState = "started" /\ SomeStageFailed) =>
        /\ Published("last_error/message")
        /\ Published("last_error/timestamp")
        /\ FatalLogs /= {}
        /\ Tracebacks = {}
        /\ exit_code \in 1..6

\* the file names key k in its object for section sec
NamedInFile(file, sec, k) ==
    LET ov == Overrides(file)
    IN  /\ sec \in DOMAIN ov
        /\ ov[sec].type = "dict"
        /\ k \in DOMAIN ov[sec].items

\* C12: once the configuration file is loaded, the settings have the three
\* sections backup, cifs and mqtt; every built-in key is still there; a key
\* the file names in the object of its own section has the file's value, and
\* every other key has its built-in default (whatever the file says in other
\* sections or under other top-level keys).
C12_OverridesOnlyNamedKeys ==
    ConfigLoaded =>
        /\ DOMAIN settings = {"backup", "cifs", "mqtt"}
        /\ \A sec \in DOMAIN DefaultSettings :
              \A k \in DOMAIN DefaultSettings[sec] :
                 /\ k \in DOMAIN settings[sec]
                 /\ IF NamedInFile(configFile, sec, k)
                    THEN settings[sec][k] = Overrides(configFile)[sec].items[k]
                    ELSE settings[sec][k] = DefaultSettings[sec][k]

\* C12 witness: a file that sets cifs.password and cifs.target is loaded; the
\* key password of the mqtt section and the backup section are as built in
C12_Witness ==
    /\ ConfigLoaded
    /\ configFile = "cifs"
    /\ settings.cifs.password = "secret"
    /\ settings.cifs.share = DefaultSettings.cifs.share
    /\ settings.mqtt.password = None
    /\ settings.backup = DefaultSettings.backup

\* C13: when the configuration file is missing or is no valid JSON, the run
\* never gets past configuration loading: no MQTT client exists, and the run
\* publishes nothing and issues no command; all it leaves is the traceback.
C13_BadConfigAbortsBeforeMqtt ==
    configFile \in {"missing", "malformed"} =>
        /\ pc \in {"load_config", "exit"}
        /\ mqttState = "none"
        /\ \A i \in DOMAIN trace : trace[i].op = "traceback"
        /\ Exited => exit_code /= 0

\* C13 witness: a run with a malformed configuration file has ended
C13_Witness ==
    /\ Exited
    /\ configFile = "malformed"
    /\ \E i \in Tracebacks : trace[i].text = "JSONDecodeError"

\* C14, the part about states: the mount command is issued at most once; its
\* status is kept nowhere (return_code is still unset at the re-check); a run
\* whose mount command failed ends with exit code 2, through fatal_error,
\* without any umount; a run whose mount command succeeded does not end with 2.
MountAtMostOnceFailureIs2 ==
    /\ Cardinality(CallsOf("mount")) <= 1
    /\ pc = "check_mount" => return_code = NoCode
    /\ (Exited /\ ReturnedNonZero("mount")) =>
          /\ exit_code = 2
          /\ FatalLogs /= {}
          /\ ~Issued("umount")
    /\ (Exited /\ Returned("mount", 0)) => exit_code /= 2

\* C14, the part about steps: a step issues the mount command only when the
\* mount point is a directory and is not mounted.
MountIssuedOnlyIfNeeded ==
    (CallsOf("mount")' /= CallsOf("mount")) => (mpIsDir /\ ~mounted)

\* C14: the mount command is issued at most once per run and only when the
\* mount point directory exists and is not already mounted; its exit status is
\* not kept; a failed mount shows at the re-check and yields exit code 2 with
\* no unmount attempt.
C14_MountOnceOnlyIfNeeded ==
    []MountAtMostOnceFailureIs2 /\ [][MountIssuedOnlyIfNeeded]_vars

\* C14 witness: the mount command was issued, failed, and the run has ended
\* with exit code 2
C14_Witness ==
    Exited /\ ReturnedNonZero("mount") /\ exit_code = 2 /\ ~mounted

\* C15: umount is issued at most once in a run; a finished run has issued it
\* exactly once if its exit code is 0, 3, 4, 5 or 6 and never if it is 1 or 2.
C15_UmountAtMostOnce ==
    /\ Cardinality(CallsOf("umount")) <= 1
    /\ Exited =>
          /\ exit_code \in {0, 3, 4, 5, 6} => Cardinality(CallsOf("umount")) = 1
          /\ exit_code \in {1, 2} => CallsOf("umount") = {}

\* C15 witness: a run ended with exit code 6 after its single umount
C15_Witness ==
    Exited /\ exit_code = 6 /\ Cardinality(CallsOf("umount")) = 1

\* C18: a finished run has published last_success exactly if its exit code is
\* 0; last_success is published only at the very end of a run; and no run
\* publishes last_success together with last_error/message or
\* last_error/timestamp.
C18_LastSuccessIffExit0 ==
    /\ Exited => (Published("last_success") <=> exit_code = 0)
    /\ Published("last_success") => pc \in {"sys_exit", "exit"}
    /\ ~(/\ Published("last_success")
         /\ Published("last_error/message") \/ Published("last_error/timestamp"))

\* C18 witness: a run ended with exit code 0, last_success being the last
\* thing it published and no last_error topic before it
C18_Witness ==
    /\ Exited /\ exit_code = 0
    /\ PublishesOf("last_success") = {Len(trace)}
    /\ ~Published("last_error/message")

\* C19: a finished run that found the share mounted (it issued no mount
\* command) and ended with exit code 0, 3, 4 or 5 has issued umount all the
\* same; and if its backup and its umount returned 0 the share is not mounted
\* at the end.
C19_UmountWhoeverMounted ==
    (Exited /\ ~Issued("mount")) =>
        /\ exit_code \in {0, 3, 4, 5} => Issued("umount")
        /\ (Returned("backup", 0) /\ Returned("umount", 0)) =>
              (exit_code = 0 /\ ~mounted)

\* C19 witness: a run that found the share mounted ended with exit code 0 and
\* left it unmounted
C19_Witness ==
    /\ Exited /\ exit_code = 0
    /\ ~Issued("mount") /\ Returned("umount", 0)
    /\ ~mounted

\* the stages in the order of the script, the statements of fatal_error after
\* them, the end of the process last
StageOrder ==
    <<"load_config", "mqtt_init", "publish_busy", "check_mountpoint", "mount",
      "check_mount", "device_directory", "make_directory", "image_name", "backup",
      "backup_running", "finalise", "report_success", "sys_exit",
      "fatal_publish_message", "fatal_publish_timestamp", "fatal_log",
      "fatal_unmount", "fatal_exit", "exit">>

RankOf(p) == CHOOSE i \in DOMAIN StageOrder : StageOrder[i] = p

\* every step of the run moves to a later place of StageOrder
MovesForward == RankOf(pc') > RankOf(pc)

\* no command is issued twice and "busy" is published once at most
NothingTwice ==
    /\ \A cmd \in {"mount", "maccmd", "backup", "umount"} :
          Cardinality(CallsOf(cmd)) <= 1
    /\ Cardinality({ i \in DOMAIN trace : IsBusy(trace[i]) }) <= 1
    /\ Cardinality({ i \in DOMAIN trace : trace[i].op = "mkdir" }) <= 1

\* C16: every run ends; its steps go through the stages in the fixed order
\* (config load, MQTT start and busy, mount point check, mount, directories,
\* image name, backup, unmount, last_success), never back, and nothing is done
\* twice.
C16_TerminatesInFixedOrder ==
    <>Exited /\ [][MovesForward]_vars /\ []NothingTwice

\* C16 witness: a run went through every stage, each doing its work, and ended
C16_Witness ==
    /\ Exited
    /\ Returned("mount", 0) /\ Returned("maccmd", 0)
    /\ \E i \in DOMAIN trace : trace[i].op = "mkdir" /\ trace[i].text = "created"
    /\ Returned("backup", 0) /\ Returned("umount", 0)
    /\ Published("last_success")

\* the Monday that opens the ISO week of a date, in days since 2001-01-01 (a
\* Monday): two dates are in the same ISO week exactly when they share it
MondayOf(dt) == DaysSince2001(dt.year) + DayOfYear(dt) - 1 - WeekdayOf(dt)

\* C20: with the weekly interval, the name given on one date is given on no
\* date of another ISO week, the dates around a year boundary included.
C20_WeeklyNameUniquePerIsoWeek ==
    LET kw   == settings.backup.full_backup_interval
        base == settings.backup.image_base_name
    IN  (pc = "backup" /\ Len(kw) > 0 /\ LowerChar(kw[1]) = "w") =>
            \A d2 \in Calendar :
                MondayOf(d2) /= MondayOf(now) =>
                    ImageName(base, LowerChar(kw[1]), d2) /= image

====
